---- MODULE Spec2Model ----
(***************************************************************************)
(* Model of ml/train/train_model.py: the artifact pipeline of the VeriChain *)
(* training script (export_models, hash_file_or_dir, dir_size_mb,           *)
(* save_metadata and the part of main that sequences them) and its          *)
(* synthetic data generator (create_synthetic_dataset).                     *)
(*                                                                          *)
(* Bytes are small integers; a file name or a file content is a sequence of *)
(* bytes.  SHA-256 is treated as collision-free: a digest is represented by *)
(* the byte stream that was fed to the accumulator, so two digests are      *)
(* equal exactly when the streams are.                                      *)
(***************************************************************************)
EXTENDS Integers, Sequences, FiniteSets, TLC

VARIABLES
    fs,          \* the filesystem: path -> node
    pc,          \* position of the pipeline driver (main) in the current run
    run,         \* number of process invocations started so far
    args,        \* the current run's inputs (model, export_onnx, accuracy, img_size)
    ret,         \* export_models' locals / return tuple
    log,         \* steps export_models and main performed in the current run
    meta_ret,    \* the record save_metadata returned in the current run
    fs0,         \* the filesystem as it was when the current run started
    hnode,       \* HashSpec: the object at the path handed to hash_file_or_dir
    horder,      \* HashSpec: the directory enumeration order of the last call
    hres,        \* HashSpec: what the last call returned
    hpc,         \* HashSpec: "ready" before the first call, "done" after a call
    gpc,         \* GenSpec: position of create_synthetic_dataset in the current call
    gargs,       \* GenSpec: the current call's (num_samples, img_size, seed)
    grng,        \* GenSpec: the call's local generator rng
    gX,          \* GenSpec: the call's local array X
    gcalls       \* GenSpec: the calls that returned, with what they returned

vars == <<fs, pc, run, args, ret, log, meta_ret, fs0, hnode, horder, hres, hpc,
          gpc, gargs, grng, gX, gcalls>>

pipeVars == <<fs, pc, run, args, ret, log, meta_ret, fs0>>
hashVars == <<hnode, horder, hres, hpc>>
genVars  == <<gpc, gargs, grng, gX, gcalls>>

-----------------------------------------------------------------------------
(* Bounds and input sets *)

\* At most this many files in a directory tree handed to the hasher.
MaxFiles == 2

\* The bytes file names and contents are made of.
Alphabet == {1, 2}

\* File names of the hasher's inputs: names that are prefixes and
\* permutations of one another, over Alphabet.
FileNames == {<<1>>, <<2>>, <<1, 2>>, <<2, 1>>, <<1, 2, 1>>}

\* File contents of the hasher's inputs.
Contents == {<<>>, <<1>>, <<2>>}

\* Names of subdirectories (bytes outside Alphabet: a directory entry is a
\* file or a subdirectory, never both).
SubdirNames == {<<3>>, <<4>>}

\* Directories of a tree, as paths relative to its root.
TreeDirs == {<<>>} \cup {<<d>> : d \in SubdirNames}

-----------------------------------------------------------------------------
(* Byte strings *)

\* Python's order on str (and on bytes): lexicographic, a proper prefix first.
RECURSIVE LexLess(_, _)
LexLess(a, b) ==
    IF a = <<>> THEN b # <<>>
    ELSE IF b = <<>> THEN FALSE
    ELSE IF Head(a) # Head(b) THEN Head(a) < Head(b)
    ELSE LexLess(Tail(a), Tail(b))

\* sorted(files): the names of S in ascending order.
RECURSIVE sorted(_)
sorted(S) ==
    IF S = {} THEN <<>>
    ELSE LET m == CHOOSE x \in S : \A y \in S \ {x} : LexLess(x, y)
         IN  <<m>> \o sorted(S \ {m})

\* f.encode("utf-8"): every code point below 128 is one byte of the same value.
encode(name) == [i \in 1..Len(name) |-> name[i]]

\* All orderings of a finite set, as sequences without repetition.
RECURSIVE Perms(_)
Perms(S) ==
    IF S = {} THEN {<<>>}
    ELSE UNION {{<<x>> \o p : p \in Perms(S \ {x})} : x \in S}

-----------------------------------------------------------------------------
(* Filesystem objects *)

\* A path that does not exist.
Absent == [kind |-> "absent"]

\* An existing object that is neither a regular file nor a directory.
Special == [kind |-> "special"]

\* A regular file; readable = FALSE: open() raises OSError.
File(bytes, readable) == [kind |-> "file", bytes |-> bytes, readable |-> readable]

\* A directory tree: the set of its files, each with the directory it is in
\* (relative to the root), its name, content and readability.
Dir(tree) == [kind |-> "dir", tree |-> tree]

Entry(d, n, b, r) == [dir |-> d, name |-> n, bytes |-> b, readable |-> r]

Entries == [dir : TreeDirs, name : FileNames, bytes : Contents, readable : BOOLEAN]

\* No two files of a tree share directory and name.
WellFormed(tree) ==
    \A e1, e2 \in tree : (e1.dir = e2.dir /\ e1.name = e2.name) => e1 = e2

RECURSIVE TreesOfSize(_)
TreesOfSize(n) ==
    IF n = 0 THEN {{}}
    ELSE LET smaller == TreesOfSize(n - 1)
         IN  smaller \cup
             {t \cup {e} : t \in {s \in smaller : Cardinality(s) = n - 1},
                           e \in Entries}

Trees == {t \in TreesOfSize(MaxFiles) : WellFormed(t)}

-----------------------------------------------------------------------------
(* hash_file_or_dir *)

\* fh.read(1024 * 1024)
ChunkSize == 1024 * 1024

\* h.update(data): the accumulator is the stream fed so far.
update(h, data) == h \o data

\* The loop "chunk = fh.read(ChunkSize); if not chunk: break; h.update(chunk)"
\* from position pos of the open file.
RECURSIVE readChunks(_, _, _)
readChunks(h, bytes, pos) ==
    LET last  == IF pos + ChunkSize - 1 < Len(bytes) THEN pos + ChunkSize - 1
                 ELSE Len(bytes)
        chunk == SubSeq(bytes, pos, last)
    IN  IF chunk = <<>> THEN h
        ELSE readChunks(update(h, chunk), bytes, last + 1)

\* hashEntry without the read loop: only the file's name reaches the accumulator.
hashEntry_NameOnly(h, e) == update(h, encode(e.name))

\* One iteration of "for f in sorted(files)": the name, then the content
\* unless open() raises OSError (the handler continues with the next file).
hashEntry(h, e) ==
    LET named == update(h, encode(e.name))
    IN  IF e.readable THEN readChunks(named, e.bytes, 1) ELSE named

\* The files directly in directory d of the tree.
FilesIn(tree, d) == {e \in tree : e.dir = d}

\* The subdirectories directly in directory d of the tree.
SubdirsIn(tree, d) ==
    {e.dir[Len(d) + 1] :
        e \in {x \in tree : /\ Len(x.dir) > Len(d)
                            /\ SubSeq(x.dir, 1, Len(d)) = d}}

\* The directories of the tree that os.walk visits.
DirsOf(tree) ==
    {<<>>} \cup UNION {{SubSeq(e.dir, 1, k) : k \in 1..Len(e.dir)} : e \in tree}

\* The orders in which the filesystem may list the subdirectories of every
\* directory in dirs: os.walk takes them as scandir yields them.
RECURSIVE OrdersOver(_, _)
OrdersOver(tree, dirs) ==
    IF dirs = {} THEN {<<>>}
    ELSE LET d == CHOOSE x \in dirs : TRUE
         IN  {(d :> p) @@ o : p \in Perms(SubdirsIn(tree, d)),
                              o \in OrdersOver(tree, dirs \ {d})}

WalkOrders(tree) == OrdersOver(tree, DirsOf(tree))

RECURSIVE hashFiles(_, _, _, _)
hashFiles(h, tree, d, names) ==
    IF names = <<>> THEN h
    ELSE LET e == CHOOSE x \in FilesIn(tree, d) : x.name = Head(names)
         IN  hashFiles(hashEntry(h, e), tree, d, Tail(names))

\* "for root, _, files in os.walk(path)": top-down, the files of a directory
\* in sorted order, then its subdirectories in the order they were listed.
RECURSIVE walk(_, _, _, _)
RECURSIVE walkSubdirs(_, _, _, _, _)
walk(h, tree, d, order) ==
    LET own == hashFiles(h, tree, d, sorted({e.name : e \in FilesIn(tree, d)}))
    IN  walkSubdirs(own, tree, d, order[d], order)

walkSubdirs(h, tree, d, subs, order) ==
    IF subs = <<>> THEN h
    ELSE walkSubdirs(walk(h, tree, d \o <<Head(subs)>>, order),
                     tree, d, Tail(subs), order)

\* What a call returns: the string h.hexdigest() or the string "unknown"
\* (prefix is what a caller has put in front of the string, nothing so far),
\* or the OSError it raises.
Hex(stream)   == [kind |-> "hex", stream |-> stream, prefix |-> ""]
Unknown       == [kind |-> "unknown", stream |-> <<>>, prefix |-> ""]
RaisedOSError == [kind |-> "raised", stream |-> <<>>, prefix |-> ""]
NoResult      == [kind |-> "none", stream |-> <<>>, prefix |-> ""]

\* hash_file_or_dir without the sentinel branch: a path that is neither file
\* nor directory gets the digest of the empty stream.
hash_file_or_dir_NoSentinel(node, order) ==
    IF node.kind = "dir" THEN Hex(walk(<<>>, node.tree, <<>>, order))
    ELSE IF node.kind = "file" THEN
        IF node.readable THEN Hex(readChunks(<<>>, node.bytes, 1))
        ELSE RaisedOSError
    ELSE Hex(<<>>)

\* hash_file_or_dir(path), node being the object at path and order the
\* enumeration order of its subdirectories when it is a directory.
hash_file_or_dir(node, order) ==
    IF node.kind = "dir" THEN Hex(walk(<<>>, node.tree, <<>>, order))
    ELSE IF node.kind = "file" THEN
        IF node.readable THEN Hex(readChunks(<<>>, node.bytes, 1))
        ELSE RaisedOSError
    ELSE Unknown

\* The enumeration orders a call on node may meet.
OrdersOf(node) ==
    IF node.kind = "dir" THEN WalkOrders(node.tree) ELSE {(<<>> :> <<>>)}

-----------------------------------------------------------------------------
(* HashSpec: hash_file_or_dir applied to bounded inputs *)

HashInputs ==
    {Absent, Special}
    \cup {File(b, r) : b \in Contents, r \in BOOLEAN}
    \cup {Dir(t) : t \in Trees}

PipeIdle ==
    /\ fs = <<>>
    /\ pc = "off"
    /\ run = 0
    /\ args = <<>>
    /\ ret = <<>>
    /\ log = <<>>
    /\ meta_ret = <<>>
    /\ fs0 = <<>>

GenIdle ==
    /\ gpc = "off"
    /\ gargs = <<>>
    /\ grng = <<>>
    /\ gX = <<>>
    /\ gcalls = <<>>

HashInit ==
    /\ hnode \in HashInputs
    /\ horder = (<<>> :> <<>>)
    /\ hres = NoResult
    /\ hpc = "ready"
    /\ PipeIdle
    /\ GenIdle

\* A call on a directory.
HashDirCall ==
    /\ hnode.kind = "dir"
    /\ \E o \in WalkOrders(hnode.tree) :
          /\ horder' = o
          /\ hres' = hash_file_or_dir(hnode, o)
    /\ hpc' = "done"
    /\ UNCHANGED <<hnode, pipeVars, genVars>>

\* A call on a regular file.
HashFileCall ==
    /\ hnode.kind = "file"
    /\ hres' = hash_file_or_dir(hnode, horder)
    /\ hpc' = "done"
    /\ UNCHANGED <<hnode, horder, pipeVars, genVars>>

\* A call on a path that is missing or neither file nor directory.
HashOtherCall ==
    /\ hnode.kind \notin {"dir", "file"}
    /\ hres' = hash_file_or_dir(hnode, horder)
    /\ hpc' = "done"
    /\ UNCHANGED <<hnode, horder, pipeVars, genVars>>

HashNext == HashDirCall \/ HashFileCall \/ HashOtherCall

HashSpec == HashInit /\ [][HashNext]_vars

-----------------------------------------------------------------------------
(* Edits of a directory tree *)

\* The contents that differ from bytes in exactly one byte.
ByteChanges(bytes) ==
    UNION {{[bytes EXCEPT ![i] = x] : x \in Alphabet \ {bytes[i]}} :
              i \in 1..Len(bytes)}

\* The trees that differ from tree in one byte of the content of file e.
ChangeByteOf(tree, e) ==
    {(tree \ {e}) \cup {[e EXCEPT !.bytes = b]} : b \in ByteChanges(e.bytes)}

\* The trees that are tree minus one file.
RemoveOneFile(tree) == {tree \ {e} : e \in tree}

\* The trees that are tree with one file renamed to a name not used in its
\* directory, every content unchanged.
RenameOneFile(tree) ==
    UNION {{(tree \ {e}) \cup {[e EXCEPT !.name = n]} :
               n \in {m \in FileNames : \A y \in tree :
                         ~(y.dir = e.dir /\ y.name = m)}} : e \in tree}

\* The (path relative to the root, content) pairs of a tree.
Pairs(tree) == {<<e.dir \o <<e.name>>, e.bytes>> : e \in tree}

AllReadable(tree) == \A e \in tree : e.readable

HashedDir == hpc = "done" /\ hnode.kind = "dir"

-----------------------------------------------------------------------------
(* Claims about hash_file_or_dir, checked under HashSpec *)

\* C6 as stated: a call on a missing path or on a path that is neither file
\* nor directory returns "unknown" and does not raise, and a call on every
\* existing regular file or directory returns a hex digest.
C6_EveryFileGetsDigest ==
    hpc = "done" =>
        /\ hnode.kind \in {"absent", "special"} => hres = Unknown
        /\ hnode.kind \in {"file", "dir"} => hres.kind = "hex"

\* C6 amended: "unknown" for a missing or special path, never an error; a
\* hex digest for every directory and every regular file that can be opened;
\* the OSError of open() propagates for a regular file that cannot.
C6_FingerprintOutcome ==
    hpc = "done" =>
        /\ hnode.kind \in {"absent", "special"} => hres = Unknown
        /\ hnode.kind = "dir" => hres.kind = "hex"
        /\ (hnode.kind = "file" /\ hnode.readable) => hres.kind = "hex"
        /\ (hnode.kind = "file" /\ ~hnode.readable) => hres = RaisedOSError

\* C6 witness: a call on a missing path has returned the sentinel.
C6_Witness == hpc = "done" /\ hnode = Absent /\ hres = Unknown

\* C7 as stated (all files readable): two calls on the same directory tree
\* return the same digest, whatever order the filesystem lists the directory
\* entries in.
C7_EnumerationOrderIrrelevant ==
    [][(hpc = "done" /\ hpc' = "done" /\ hnode.kind = "dir"
            /\ AllReadable(hnode.tree)) => hres' = hres]_vars

\* C8 as stated (all files readable): a tree has the digest the call returned
\* if and only if it has the same (relative path, content) pairs as the tree
\* that was hashed.
C8_DigestIdentifiesPairs ==
    (HashedDir /\ AllReadable(hnode.tree)) =>
        \A t2 \in {t \in Trees : AllReadable(t)} :
            (\E o2 \in WalkOrders(t2) : hash_file_or_dir(Dir(t2), o2) = hres)
                <=> Pairs(t2) = Pairs(hnode.tree)

\* C9 as stated: changing one byte of one contained file, adding one file or
\* removing one file changes the digest of a directory, and changing one byte
\* of a regular file changes the digest of that file.  The hashed tree and
\* the tree with one file fewer are at once a removal (from the hashed tree)
\* and an addition (to the smaller one).
C9_EveryEditChangesDigest ==
    /\ HashedDir =>
          \A t2 \in UNION {ChangeByteOf(hnode.tree, e) : e \in hnode.tree}
                    \cup RemoveOneFile(hnode.tree) :
              \A o2 \in WalkOrders(t2) : hash_file_or_dir(Dir(t2), o2) # hres
    /\ (hpc = "done" /\ hnode.kind = "file") =>
          \A b \in ByteChanges(hnode.bytes) :
              /\ hres.kind = "hex"
              /\ hash_file_or_dir(File(b, hnode.readable), horder) # hres

\* C9 amended: the same, for the files that can be opened: changing one byte
\* of a readable contained file, or adding or removing one file (readable or
\* not), changes the digest of a directory under every enumeration order, and
\* changing one byte of a readable regular file changes the digest of that
\* file.
C9_ReadableEditChangesDigest ==
    /\ HashedDir =>
          \A t2 \in UNION {ChangeByteOf(hnode.tree, e) :
                              e \in {x \in hnode.tree : x.readable}}
                    \cup RemoveOneFile(hnode.tree) :
              \A o2 \in WalkOrders(t2) : hash_file_or_dir(Dir(t2), o2) # hres
    /\ (hpc = "done" /\ hnode.kind = "file" /\ hnode.readable) =>
          \A b \in ByteChanges(hnode.bytes) :
              /\ hres.kind = "hex"
              /\ hash_file_or_dir(File(b, TRUE), horder) # hres

\* C9 witness: a directory with a readable non-empty file and a second file
\* in a subdirectory has been hashed.
C9_Witness ==
    /\ HashedDir
    /\ hres.kind = "hex"
    /\ \E e1, e2 \in hnode.tree :
          /\ e1.readable /\ e1.bytes # <<>>
          /\ e2 # e1 /\ e2.dir # <<>>

\* C10 as stated: renaming one contained file to a name not used in its
\* directory, contents unchanged, changes the digest of the directory (here
\* with every file readable and the directories listed in the same order).
C10_RenameChangesDigest ==
    (HashedDir /\ AllReadable(hnode.tree)) =>
        \A t2 \in RenameOneFile(hnode.tree) :
            hash_file_or_dir(Dir(t2), horder) # hres

-----------------------------------------------------------------------------
(* The pipeline: inputs and artifacts *)

\* Process invocations of the training script on one output directory.
MaxRuns == 2

\* Distinct trained models (the weights a training run ends with).
NumModels == 2

Models == 1..NumModels

\* Test accuracies in percent, one below and one above main's 70% mark.
Accuracies == {60, 90}

\* --img-size
ImgSizes == {224}

\* os.path.join(output_dir, ...), and two paths a caller of save_metadata may
\* pass that the pipeline never writes: one that does not exist and one that
\* is neither a regular file nor a directory.
P_KERAS   == "model.keras"
P_BUNDLE  == "saved_model"
P_ONNX    == "model.onnx"
P_META    == "meta.json"
P_MISSING == "missing"
P_SPECIAL == "special"

Paths == {P_KERAS, P_BUNDLE, P_ONNX, P_META, P_MISSING, P_SPECIAL}

\* Python's None, where a path is expected.
None == "None"

\* n bytes in megabytes: n / (1024 * 1024), kept as the fraction.
MB(n) == [bytes |-> n, per |-> 1024 * 1024]

\* What model.save writes for model m.
KerasBytes(m) == <<m>>

\* What model.export writes for model m: saved_model.pb in the bundle's
\* root, the weights under variables/.
BundleTree(m) ==
    { Entry(<<>>, <<1>>, <<m>>, TRUE),
      Entry(<< <<3>> >>, <<2>>, <<m, m>>, TRUE) }

\* What onnx_model.SerializeToString() is for model m.
OnnxBytes(m) == <<m, m, m>>

\* The proper prefixes of a content: what a failed write may leave.
ProperPrefixes(bytes) == {SubSeq(bytes, 1, k) : k \in 0..(Len(bytes) - 1)}

NoArgs == [model |-> 0, export_onnx |-> FALSE, accuracy |-> 0, img_size |-> 0]
NoRet  == [size |-> MB(0), onnx_out |-> None, primary |-> None]
NoMeta == [model_id |-> NoResult]

EmptyOutputDir ==
    [p \in Paths |-> IF p = P_SPECIAL THEN Special ELSE Absent]

HashIdle ==
    /\ hnode = Absent
    /\ horder = (<<>> :> <<>>)
    /\ hres = NoResult
    /\ hpc = "off"

Init ==
    /\ fs = EmptyOutputDir
    /\ fs0 = EmptyOutputDir
    /\ pc = "idle"
    /\ run = 0
    /\ args = NoArgs
    /\ ret = NoRet
    /\ log = <<>>
    /\ meta_ret = NoMeta
    /\ HashIdle
    /\ GenIdle

-----------------------------------------------------------------------------
(* main, up to the call of export_models *)

\* A process invocation: argument parsing, os.makedirs, dataset, training and
\* the inference model, whose weights are args.model.
StartRun ==
    /\ pc \in {"idle", "done", "crashed"}
    /\ run < MaxRuns
    /\ run' = run + 1
    /\ \E m \in Models, x \in BOOLEAN, a \in Accuracies, s \in ImgSizes :
          args' = [model |-> m, export_onnx |-> x, accuracy |-> a, img_size |-> s]
    /\ ret' = NoRet
    /\ log' = <<>>
    /\ meta_ret' = NoMeta
    /\ fs0' = fs
    /\ pc' = "save"
    /\ UNCHANGED <<fs, hashVars, genVars>>

-----------------------------------------------------------------------------
(* export_models (the flag-gated definition, the one in effect) *)

\* 1) model.save(keras_path) succeeds.
SaveKerasOk ==
    /\ pc = "save"
    /\ fs' = [fs EXCEPT ![P_KERAS] = File(KerasBytes(args.model), TRUE)]
    /\ log' = Append(log, "save")
    /\ pc' = "export"
    /\ UNCHANGED <<run, args, ret, meta_ret, fs0, hashVars, genVars>>

\* model.save raises, the file untouched or partly written; main handles no
\* exception, so the process ends: mutant below keeps going instead.
SaveKerasFail_Swallowed ==
    /\ pc = "save"
    /\ \E n \in {fs[P_KERAS]} \cup {File(b, TRUE) : b \in ProperPrefixes(KerasBytes(args.model))} :
          fs' = [fs EXCEPT ![P_KERAS] = n]
    /\ log' = Append(log, "save_failed")
    /\ pc' = "export"
    /\ UNCHANGED <<run, args, ret, meta_ret, fs0, hashVars, genVars>>

\* model.save raises, the file untouched or partly written; neither
\* export_models nor main handles the exception, so the process ends.
SaveKerasFail ==
    /\ pc = "save"
    /\ \E n \in {fs[P_KERAS]} \cup {File(b, TRUE) : b \in ProperPrefixes(KerasBytes(args.model))} :
          fs' = [fs EXCEPT ![P_KERAS] = n]
    /\ log' = Append(log, "save_failed")
    /\ pc' = "crashed"
    /\ UNCHANGED <<run, args, ret, meta_ret, fs0, hashVars, genVars>>

\* The flag-less definition of export_models (the first one in the file):
\* after the bundle it always goes on to the conversion.
ExportBundleOk_AlwaysConverts ==
    /\ pc = "export"
    /\ fs' = [fs EXCEPT ![P_BUNDLE] = Dir(BundleTree(args.model))]
    /\ log' = Append(log, "export")
    /\ ret' = [size |-> MB(0), onnx_out |-> None, primary |-> P_BUNDLE]
    /\ pc' = "import"
    /\ UNCHANGED <<run, args, meta_ret, fs0, hashVars, genVars>>

\* 2) model.export(saved_model_dir) succeeds; 3) the locals are initialised
\* and "if export_onnx" is decided.
ExportBundleOk ==
    /\ pc = "export"
    /\ fs' = [fs EXCEPT ![P_BUNDLE] = Dir(BundleTree(args.model))]
    /\ log' = Append(log, "export")
    /\ ret' = [size |-> MB(0), onnx_out |-> None, primary |-> P_BUNDLE]
    /\ pc' = IF args.export_onnx THEN "import" ELSE "return"
    /\ UNCHANGED <<run, args, meta_ret, fs0, hashVars, genVars>>

\* model.export raises, the directory untouched or partly written.
ExportBundleFail ==
    /\ pc = "export"
    /\ \E n \in {fs[P_BUNDLE]} \cup
                {Dir(t) : t \in (SUBSET BundleTree(args.model)) \ {BundleTree(args.model)}} :
          fs' = [fs EXCEPT ![P_BUNDLE] = n]
    /\ log' = Append(log, "export_failed")
    /\ pc' = "crashed"
    /\ UNCHANGED <<run, args, ret, meta_ret, fs0, hashVars, genVars>>

\* "import tf2onnx" succeeds.
ImportOk ==
    /\ pc = "import"
    /\ log' = Append(log, "import")
    /\ pc' = "convert"
    /\ UNCHANGED <<fs, run, args, ret, meta_ret, fs0, hashVars, genVars>>

\* "import tf2onnx" raises ImportError: the converter is not installed.
ImportFail ==
    /\ pc = "import"
    /\ log' = Append(log, "import_failed")
    /\ pc' = "handler"
    /\ UNCHANGED <<fs, run, args, ret, meta_ret, fs0, hashVars, genVars>>

\* tf2onnx.convert.from_keras returns the converted model.
ConvertOk ==
    /\ pc = "convert"
    /\ log' = Append(log, "convert")
    /\ pc' = "open"
    /\ UNCHANGED <<fs, run, args, ret, meta_ret, fs0, hashVars, genVars>>

\* The flag-less definition's "except ImportError": an error of the converter
\* is not caught and ends the process.
ConvertFail_Propagates ==
    /\ pc = "convert"
    /\ log' = Append(log, "convert_failed")
    /\ pc' = "crashed"
    /\ UNCHANGED <<fs, run, args, ret, meta_ret, fs0, hashVars, genVars>>

\* tf2onnx.convert.from_keras raises (version skew, unsupported op, ...).
ConvertFail ==
    /\ pc = "convert"
    /\ log' = Append(log, "convert_failed")
    /\ pc' = "handler"
    /\ UNCHANGED <<fs, run, args, ret, meta_ret, fs0, hashVars, genVars>>

\* open(onnx_path, "wb") creates or truncates the file.
OpenOnnxOk ==
    /\ pc = "open"
    /\ fs' = [fs EXCEPT ![P_ONNX] = File(<<>>, TRUE)]
    /\ log' = Append(log, "open")
    /\ pc' = "write"
    /\ UNCHANGED <<run, args, ret, meta_ret, fs0, hashVars, genVars>>

\* open(onnx_path, "wb") raises OSError.
OpenOnnxFail ==
    /\ pc = "open"
    /\ log' = Append(log, "open_failed")
    /\ pc' = "handler"
    /\ UNCHANGED <<fs, run, args, ret, meta_ret, fs0, hashVars, genVars>>

\* f.write(onnx_model.SerializeToString()) and the close of the with block.
WriteOnnxOk ==
    /\ pc = "write"
    /\ fs' = [fs EXCEPT ![P_ONNX] = File(OnnxBytes(args.model), TRUE)]
    /\ log' = Append(log, "write")
    /\ pc' = "record"
    /\ UNCHANGED <<run, args, ret, meta_ret, fs0, hashVars, genVars>>

\* Serialization or the write raises: the file stays, empty or partly written.
WriteOnnxFail ==
    /\ pc = "write"
    /\ \E b \in ProperPrefixes(OnnxBytes(args.model)) :
          fs' = [fs EXCEPT ![P_ONNX] = File(b, TRUE)]
    /\ log' = Append(log, "write_failed")
    /\ pc' = "handler"
    /\ UNCHANGED <<run, args, ret, meta_ret, fs0, hashVars, genVars>>

\* RecordOnnx without "primary = onnx_path".
RecordOnnx_KeepsPrimary ==
    /\ pc = "record"
    /\ ret' = [size     |-> MB(Len(fs[P_ONNX].bytes)),
               onnx_out |-> P_ONNX,
               primary  |-> ret.primary]
    /\ log' = Append(log, "record")
    /\ pc' = "return"
    /\ UNCHANGED <<fs, run, args, meta_ret, fs0, hashVars, genVars>>

\* onnx_file_size_mb = os.path.getsize(onnx_path) / (1024 * 1024);
\* onnx_out = onnx_path; primary = onnx_path.
RecordOnnx ==
    /\ pc = "record"
    /\ ret' = [size     |-> MB(Len(fs[P_ONNX].bytes)),
               onnx_out |-> P_ONNX,
               primary  |-> P_ONNX]
    /\ log' = Append(log, "record")
    /\ pc' = "return"
    /\ UNCHANGED <<fs, run, args, meta_ret, fs0, hashVars, genVars>>

\* "except Exception as e": the three prints, nothing else.
SkipOnnx ==
    /\ pc = "handler"
    /\ log' = Append(log, "skip")
    /\ pc' = "return"
    /\ UNCHANGED <<fs, run, args, ret, meta_ret, fs0, hashVars, genVars>>

\* "return onnx_file_size_mb, onnx_out, primary": main now holds the tuple.
ReturnExport ==
    /\ pc = "return"
    /\ log' = Append(log, "return")
    /\ pc' = "meta"
    /\ UNCHANGED <<fs, run, args, ret, meta_ret, fs0, hashVars, genVars>>

-----------------------------------------------------------------------------
(* dir_size_mb and save_metadata *)

RECURSIVE totalBytes(_)
totalBytes(tree) ==
    IF tree = {} THEN 0
    ELSE LET e == CHOOSE x \in tree : TRUE
         IN  Len(e.bytes) + totalBytes(tree \ {e})

\* dir_size_mb(path) (the second definition, the one in effect): the sizes
\* of the regular files under the directory, in megabytes.
dir_size_mb(node) == MB(totalBytes(node.tree))

\* os.path.getsize(path) of an existing object: st_size.
getsize(node) == IF node.kind = "file" THEN Len(node.bytes) ELSE 0

\* sizes_of without the look at model.onnx beside a directory.
sizes_of_NoOnnxEntry(f, primary) ==
    IF f[primary].kind = "dir" THEN ("saved_model_mb" :> dir_size_mb(f[primary]))
    ELSE ("file_mb" :> MB(getsize(f[primary])))

\* The sizes dict of save_metadata.
sizes_of(f, primary) ==
    IF f[primary].kind = "dir" THEN
        IF f[P_ONNX].kind = "file"
        THEN ("saved_model_mb" :> dir_size_mb(f[primary]))
                 @@ ("onnx_mb" :> MB(getsize(f[P_ONNX])))
        ELSE ("saved_model_mb" :> dir_size_mb(f[primary]))
    ELSE ("file_mb" :> MB(getsize(f[primary])))

\* f"0x{model_hash}"
ZeroX(h) == [h EXCEPT !.prefix = "0x"]

\* The metadata dict, with the hash h of the primary artifact.
metadata_of(f, primary, test_accuracy, onnx_size_mb, img_size, h, now) ==
    [ input_shape       |-> <<img_size, img_size, 3>>,
      input_type        |-> "float32",
      output_shape      |-> <<1>>,
      output_type       |-> "float32",
      model_id          |-> ZeroX(h),
      training_accuracy |-> test_accuracy,
      onnx_size_mb      |-> onnx_size_mb,
      sizes             |-> sizes_of(f, primary),
      exported_at       |-> now,
      framework         |-> "tensorflow",
      tf_version        |-> "tf.__version__" ]

\* The keys of the metadata dict in insertion order.
MetaKeys ==
    << "input_shape", "input_type", "output_shape", "output_type", "model_id",
       "training_accuracy", "onnx_size_mb", "sizes", "exported_at", "framework",
       "tf_version" >>

\* json.dump(metadata, f, indent=2): the members in insertion order.
json_dump(md) == [i \in 1..Len(MetaKeys) |-> <<MetaKeys[i], md[MetaKeys[i]]>>]

\* open(path, "a"): an existing file keeps its content.
open_w_Appending(node) == IF node.kind = "file" THEN node ELSE File(<<>>, TRUE)

\* open(path, "w"): the file is created, or truncated if it exists.
open_w(node) == File(<<>>, TRUE)

\* f.write(data) on the open file, then the close of the with block.
write(node, data) == [node EXCEPT !.bytes = @ \o data]

\* save_metadata raises before it writes: hash_file_or_dir raised (open() of
\* an unreadable file), or os.path.getsize(primary_artifact_path) raised
\* because the path does not exist.
metadata_raises(f, primary, h) ==
    \/ h.kind = "raised"
    \/ f[primary].kind = "absent"

\* save_metadata returns: meta.json holds the record.
SaveMetadataOk ==
    /\ pc = "meta"
    /\ \E o \in OrdersOf(fs[ret.primary]) :
          LET h  == hash_file_or_dir(fs[ret.primary], o)
              md == metadata_of(fs, ret.primary, args.accuracy, ret.size,
                                args.img_size, h, run)
          IN  /\ ~metadata_raises(fs, ret.primary, h)
              /\ meta_ret' = md
              /\ fs' = [fs EXCEPT ![P_META] = write(open_w(@), json_dump(md))]
    /\ log' = Append(log, "meta")
    /\ pc' = "report"
    /\ UNCHANGED <<run, args, ret, fs0, hashVars, genVars>>

\* save_metadata raises before it opens meta.json; main handles no exception.
SaveMetadataRaise ==
    /\ pc = "meta"
    /\ \E o \in OrdersOf(fs[ret.primary]) :
          metadata_raises(fs, ret.primary, hash_file_or_dir(fs[ret.primary], o))
    /\ log' = Append(log, "meta_raised")
    /\ pc' = "crashed"
    /\ UNCHANGED <<fs, run, args, ret, meta_ret, fs0, hashVars, genVars>>

\* open(metadata_path, "w") or json.dump raises: meta.json untouched or
\* truncated; main handles no exception.
SaveMetadataWriteFail ==
    /\ pc = "meta"
    /\ \E o \in OrdersOf(fs[ret.primary]) :
          ~metadata_raises(fs, ret.primary, hash_file_or_dir(fs[ret.primary], o))
    /\ \E n \in {fs[P_META], open_w(fs[P_META])} :
          fs' = [fs EXCEPT ![P_META] = n]
    /\ log' = Append(log, "meta_write_failed")
    /\ pc' = "crashed"
    /\ UNCHANGED <<run, args, ret, meta_ret, fs0, hashVars, genVars>>

-----------------------------------------------------------------------------
(* main, after save_metadata has returned *)

\* value == "unknown", value being the string prefix + hexdigest or prefix +
\* "unknown".
is_unknown(value) == value.kind = "unknown" /\ value.prefix = ""

\* The results block: "Model ID:" with the success mark if
\* metadata.get("model_id", "unknown") != "unknown", else with the failure mark.
results_mark(metadata) ==
    IF ~is_unknown(metadata.model_id) THEN "model_id_ok" ELSE "model_id_failed"

\* The acceptance criteria block: "Model ID generated:" with the success mark
\* if metadata.get("model_id") != "unknown", else with the failure mark.
acceptance_mark(metadata) ==
    IF ~is_unknown(metadata.model_id) THEN "generated_ok" ELSE "generated_failed"

\* The results block, the next steps and the acceptance criteria block: the
\* two marks for the model ID are logged, then the process exits.
ReportResults ==
    /\ pc = "report"
    /\ log' = log \o <<results_mark(meta_ret), acceptance_mark(meta_ret)>>
    /\ pc' = "done"
    /\ UNCHANGED <<fs, run, args, ret, meta_ret, fs0, hashVars, genVars>>

-----------------------------------------------------------------------------
(* Spec: process invocations of main on one output directory *)

\* save_metadata never raises before the write here (SaveMetadataRaise is not
\* enabled: the primary artifact was written by the same run), see
\* PrimaryIsThere.
Next ==
    \/ StartRun
    \/ SaveKerasOk \/ SaveKerasFail
    \/ ExportBundleOk \/ ExportBundleFail
    \/ ImportOk \/ ImportFail
    \/ ConvertOk \/ ConvertFail
    \/ OpenOnnxOk \/ OpenOnnxFail
    \/ WriteOnnxOk \/ WriteOnnxFail
    \/ RecordOnnx \/ SkipOnnx \/ ReturnExport
    \/ SaveMetadataOk \/ SaveMetadataWriteFail
    \/ ReportResults

Spec == Init /\ [][Next]_vars

\* In a pipeline run save_metadata is handed an artifact that exists and can
\* be read.
PrimaryIsThere == ~ENABLED SaveMetadataRaise

-----------------------------------------------------------------------------
(* MetaSpec: save_metadata called on bounded inputs *)

\* What the output directory may hold when save_metadata is called.
MetaFilesystems ==
    {[p \in Paths |->
        CASE p = P_KERAS   -> k
          [] p = P_BUNDLE  -> b
          [] p = P_ONNX    -> x
          [] p = P_SPECIAL -> Special
          [] OTHER         -> Absent] :
        k \in {Absent} \cup {File(KerasBytes(m), TRUE) : m \in Models},
        b \in {Absent} \cup {Dir(BundleTree(m)) : m \in Models},
        x \in {Absent}
              \cup {File(OnnxBytes(m), r) : m \in Models, r \in BOOLEAN}
              \cup {File(c, TRUE) : c \in UNION {ProperPrefixes(OnnxBytes(m)) : m \in Models}}}

MetaInit ==
    /\ fs \in MetaFilesystems
    /\ fs0 = fs
    /\ pc = "meta"
    /\ run = 1
    /\ \E a \in Accuracies, s \in ImgSizes :
          args = [model |-> 0, export_onnx |-> FALSE, accuracy |-> a, img_size |-> s]
    /\ \E p \in Paths \ {P_META}, z \in {0, Len(OnnxBytes(1))} :
          ret = [size |-> MB(z), onnx_out |-> None, primary |-> p]
    /\ log = <<>>
    /\ meta_ret = NoMeta
    /\ HashIdle
    /\ GenIdle

\* save_metadata, and main's report on the record it returned.
MetaNext ==
    SaveMetadataOk \/ SaveMetadataRaise \/ SaveMetadataWriteFail \/ ReportResults

MetaSpec == MetaInit /\ [][MetaNext]_vars

-----------------------------------------------------------------------------
(* Claims about export_models and main, checked under Spec *)

Last(s) == s[Len(s)]

\* The steps of the optional conversion.
ConversionSteps ==
    {"import", "import_failed", "convert", "convert_failed", "open",
     "open_failed", "write", "write_failed", "record", "skip"}

\* The ways the conversion fails.
ConversionFailures == {"import_failed", "convert_failed", "open_failed", "write_failed"}

\* The failures of the two unconditional steps.
FatalFailures == {"save_failed", "export_failed"}

\* export_models has returned to main and nothing has happened since.
ExportReturned == pc = "meta"

\* C1: when export_models returns from a call with export_onnx = False, both
\* model.keras and saved_model/ exist, no step of the conversion was
\* attempted, onnx_out is None, the size is 0.0 and primary is saved_model/.
C1_ExportWithoutConversion ==
    (ExportReturned /\ ~args.export_onnx) =>
        /\ fs[P_KERAS].kind = "file"
        /\ fs[P_BUNDLE].kind = "dir"
        /\ \A i \in 1..Len(log) : log[i] \notin ConversionSteps
        /\ ret.onnx_out = None
        /\ ret.size = MB(0)
        /\ ret.primary = P_BUNDLE

\* C1 witness: export_models has returned from a call without the flag, in a
\* directory where an earlier run left a model.onnx.
C1_Witness ==
    /\ ExportReturned
    /\ ~args.export_onnx
    /\ fs0[P_ONNX].kind = "file"

\* C2: with export_onnx = True and both unconditional steps done, a failure
\* at any point of the conversion is caught (the process does not end on it),
\* and export_models returns onnx_out = None, size 0.0 and primary =
\* saved_model/.
C2_FailedConversionDegrades ==
    /\ (log # <<>> /\ Last(log) \in ConversionFailures) => pc = "handler"
    /\ pc = "handler" => ENABLED SkipOnnx
    /\ (ExportReturned /\ args.export_onnx
            /\ \E i \in 1..Len(log) : log[i] \in ConversionFailures) =>
          /\ ret.onnx_out = None
          /\ ret.size = MB(0)
          /\ ret.primary = P_BUNDLE

\* C2 witness: export_models has returned although the write of model.onnx
\* failed after the file was opened.
C2_Witness ==
    /\ ExportReturned
    /\ args.export_onnx
    /\ \E i \in 1..Len(log) : log[i] = "write_failed"

\* C3: in every result export_models returns, primary is onnx_out when that
\* is not None and saved_model/ otherwise; onnx_out is not None only if
\* export_onnx was True and this call wrote model.onnx; and the size is 0.0
\* whenever onnx_out is None.
C3_ResultShape ==
    ExportReturned =>
        /\ ret.primary = IF ret.onnx_out # None THEN ret.onnx_out ELSE P_BUNDLE
        /\ ret.onnx_out # None =>
              /\ args.export_onnx
              /\ ret.onnx_out = P_ONNX
              /\ \E i \in 1..Len(log) : log[i] = "write"
              /\ fs[P_ONNX] = File(OnnxBytes(args.model), TRUE)
        /\ ret.onnx_out = None => ret.size = MB(0)

\* C3 witness: export_models has returned a converted artifact.
C3_Witness == ExportReturned /\ ret.onnx_out = P_ONNX

\* C4: the native save is the first step and the bundle export the second; a
\* failure of either ends the run as an error, no step follows it, and no
\* manifest is written in that run.
C4_UnconditionalStepsFatal ==
    \A i \in 1..Len(log) :
        /\ log[i] \in {"save", "save_failed"} <=> i = 1
        /\ log[i] \in {"export", "export_failed"} <=> i = 2
        /\ log[i] \in FatalFailures =>
              /\ i = Len(log)
              /\ pc = "crashed"
              /\ meta_ret = NoMeta
              /\ fs[P_META] = fs0[P_META]

\* C4 witness: the bundle export failed in a directory that holds the
\* manifest of an earlier run.
C4_Witness ==
    /\ log = <<"save", "export_failed">>
    /\ pc = "crashed"
    /\ fs0[P_META].kind = "file"

-----------------------------------------------------------------------------
(* Claims about save_metadata, checked under MetaSpec *)

\* C5 as stated: called on a path that does not exist or is neither a regular
\* file nor a directory, save_metadata does not raise (the write of meta.json
\* itself aside): it returns a record whose model_id is "0xunknown" and
\* meta.json holds that record.
C5_UnavailablePathStillAssembles ==
    (/\ pc \in {"done", "crashed"}
     /\ fs0[ret.primary].kind \in {"absent", "special"}
     /\ Last(log) # "meta_write_failed") =>
        /\ pc = "done"
        /\ meta_ret.model_id = ZeroX(Unknown)
        /\ fs[P_META] = File(json_dump(meta_ret), TRUE)

\* C11: in every record save_metadata returns, the keys of sizes are exactly
\* saved_model_mb when the primary path is a directory and model.onnx is not
\* a file, saved_model_mb and onnx_mb when it is a directory and model.onnx is
\* a file, and file_mb when it is a file; the directory shape and the
\* single-file shape are never both there and never both missing.
C11_SizesKeySet ==
    pc = "done" =>
        LET keys    == DOMAIN meta_ret.sizes
            primary == fs0[ret.primary]
        IN  /\ (primary.kind = "dir" /\ fs0[P_ONNX].kind # "file") =>
                  keys = {"saved_model_mb"}
            /\ (primary.kind = "dir" /\ fs0[P_ONNX].kind = "file") =>
                  keys = {"saved_model_mb", "onnx_mb"}
            /\ primary.kind = "file" => keys = {"file_mb"}
            /\ ("file_mb" \in keys) # (keys \cap {"saved_model_mb", "onnx_mb"} # {})

\* C11 witness: save_metadata has returned a record for a directory with a
\* model.onnx beside it.
C11_Witness ==
    /\ pc = "done"
    /\ fs0[ret.primary].kind = "dir"
    /\ fs0[P_ONNX].kind = "file"
    /\ DOMAIN meta_ret.sizes = {"saved_model_mb", "onnx_mb"}

-----------------------------------------------------------------------------
(* Claims about the manifest across runs, checked under Spec *)

\* C12: after every successful save_metadata, whatever earlier runs left in
\* the output directory, meta.json holds exactly the record the call
\* returned: nothing of an earlier manifest is left in the file.
C12_ManifestIsLastRecord ==
    pc = "done" => fs[P_META] = File(json_dump(meta_ret), TRUE)

\* C12 witness: a second run has replaced the manifest of the first by a
\* record with another identity and another sizes map.
C12_Witness ==
    /\ pc = "done"
    /\ fs0[P_META].kind = "file"
    /\ fs0[P_META].bytes # <<>>
    /\ fs0[P_META].bytes[5] # <<"model_id", meta_ret.model_id>>
    /\ DOMAIN fs0[P_META].bytes[8][2] # DOMAIN meta_ret.sizes

-----------------------------------------------------------------------------
(* Claim about main's report, checked under MetaSpec *)

\* C17 as stated: whenever the record's model_id is "0xunknown", main prints
\* the failure mark for the model ID in the results block and in the
\* acceptance criteria block, and it prints the success mark only when
\* model_id is "0x" followed by a digest.
C17_UnknownIdentityReported ==
    pc = "done" =>
        LET marks == {log[i] : i \in 1..Len(log)}
        IN  /\ meta_ret.model_id = ZeroX(Unknown) =>
                  {"model_id_failed", "generated_failed"} \subseteq marks
            /\ (marks \cap {"model_id_ok", "generated_ok"} # {}) =>
                  (meta_ret.model_id.kind = "hex" /\ meta_ret.model_id.prefix = "0x")

-----------------------------------------------------------------------------
(* Claims about a run as a whole, checked under Spec *)

\* C15 as stated: a run on a directory that holds the artifacts and the
\* manifest of an earlier run either completes, with model.keras,
\* saved_model/ and meta.json written by this run, or ends in an error with
\* the output directory as it was when the run started (here for the runs
\* whose first step, model.save, succeeded, and for the failures that left
\* saved_model/ and meta.json as they were).
C15_RunAtomic ==
    (/\ fs0[P_KERAS].kind = "file"
     /\ fs0[P_BUNDLE].kind = "dir"
     /\ fs0[P_META].kind = "file"
     /\ log # <<>>
     /\ log[1] = "save") =>
        /\ pc = "done" =>
              /\ fs[P_KERAS] = File(KerasBytes(args.model), TRUE)
              /\ fs[P_BUNDLE] = Dir(BundleTree(args.model))
              /\ fs[P_META] = File(json_dump(meta_ret), TRUE)
        /\ (/\ pc = "crashed"
            /\ fs[P_BUNDLE] = fs0[P_BUNDLE]
            /\ fs[P_META] = fs0[P_META]) => fs = fs0

\* The artifact the inference service loads: model.onnx if that file is on
\* disk, else saved_model/.
ServedArtifact == IF fs[P_ONNX].kind = "file" THEN fs[P_ONNX] ELSE fs[P_BUNDLE]

\* C18 as stated: after every completed run, the model_id in meta.json is
\* "0x" + the fingerprint of the artifact the inference service loads.
C18_IdentityOfServedArtifact ==
    pc = "done" =>
        /\ fs[P_META] = File(json_dump(meta_ret), TRUE)
        /\ \E o \in OrdersOf(ServedArtifact) :
              meta_ret.model_id = ZeroX(hash_file_or_dir(ServedArtifact, o))

-----------------------------------------------------------------------------
(* create_synthetic_dataset *)

\* Calls of create_synthetic_dataset in one process.
MaxCalls == 3

\* num_samples ranges over 0..MaxSamples.
MaxSamples == 2

\* img_size
GenImgSizes == {1, 2}

\* seed: valid seeds and one that numpy rejects.
Seeds == {-1, 0, 1}

\* States of the process-wide generator (numpy's legacy global RandomState):
\* how far whatever ran before the call has advanced it.
GlobalStates == {0, 1}

\* Array elements are multiples of 0.01, kept as integers: 100 is 1.0.
Unit == 100

\* The index tuples of an array of the given shape.
Indices(shape) ==
    {<<i, r, c, ch>> : i \in 0..(shape[1] - 1), r \in 0..(shape[2] - 1),
                       c \in 0..(shape[3] - 1), ch \in 0..(shape[4] - 1)}

\* The number of elements of an array of the given shape.
size(shape) == shape[1] * shape[2] * shape[3] * shape[4]

\* The position of an index tuple in C order, the order the elements of an
\* array are drawn in.
flat(shape, idx) ==
    ((idx[1] * shape[2] + idx[2]) * shape[3] + idx[3]) * shape[4] + idx[4]

\* The bit generator: its output is a fixed function of the seed and of the
\* position in the stream.  uniform is in [0, 1), standard_normal is in
\* units of one standard deviation.
uniform(seed, pos) == ((seed + 1) * 37 + pos * 61) % Unit
standard_normal(seed, pos) == (((seed + 1) * 5 + pos * 3) % 7) - 3

\* A generator that continues the process-wide stream instead of starting
\* its own from the seed.
default_rng_Global(seed, global) ==
    [seed |-> 0, pos |-> global, seeded |-> 0, draws |-> <<>>]

\* np.random.default_rng(seed), seed >= 0: a fresh generator at the start of
\* the stream of that seed, whatever state the process-wide generator is in.
default_rng(seed, global) ==
    [seed |-> seed, pos |-> 0, seeded |-> 1, draws |-> <<>>]

\* The generator after a draw of an array of the given shape.
advance(rng, shape, what) ==
    [rng EXCEPT !.pos = @ + size(shape), !.draws = Append(@, what)]

\* rng.random(shape, dtype=np.float32)
random(rng, shape) ==
    [shape |-> shape,
     at    |-> [idx \in Indices(shape) |->
                   uniform(rng.seed, rng.pos + flat(shape, idx))]]

\* rng.normal(loc, scale, shape).astype(np.float32), scale in units of 0.01.
normal(rng, loc, scale, shape) ==
    [shape |-> shape,
     at    |-> [idx \in Indices(shape) |->
                   loc + scale * standard_normal(rng.seed, rng.pos + flat(shape, idx))]]

\* X[lo:hi] += noise
add_slice(X, lo, hi, noise) ==
    [X EXCEPT !.at = [idx \in DOMAIN @ |->
        IF lo <= idx[1] /\ idx[1] < hi
        THEN @[idx] + noise.at[<<idx[1] - lo, idx[2], idx[3], idx[4]>>]
        ELSE @[idx]]]

\* range(start, stop, step), step > 0
range(start, stop, step) ==
    IF stop <= start THEN {}
    ELSE {start + k * step : k \in 0..((stop - start - 1) \div step)}

\* The step of the grid.
GridStep == 32

\* The bias of the grid: 0.1.
GridBias == 10

\* "for j in range(0, img_size, 32): X[half:, j, :, :] += 0.1": j is the
\* second index of X.
add_grid(X, half, img_size) ==
    [X EXCEPT !.at = [idx \in DOMAIN @ |->
        IF idx[1] >= half /\ idx[2] \in range(0, img_size, GridStep)
        THEN @[idx] + GridBias
        ELSE @[idx]]]

\* np.clip without the upper limit.
clip_LowerOnly(X, lo, hi) ==
    [X EXCEPT !.at = [idx \in DOMAIN @ |-> IF @[idx] < lo THEN lo ELSE @[idx]]]

\* np.clip(X, lo, hi)
clip(X, lo, hi) ==
    [X EXCEPT !.at = [idx \in DOMAIN @ |->
        IF @[idx] < lo THEN lo ELSE IF @[idx] > hi THEN hi ELSE @[idx]]]

\* np.concatenate([np.zeros(half), np.ones(num_samples - half)])
labels(num_samples, half) ==
    [i \in 1..half |-> 0] \o [i \in 1..(num_samples - half) |-> 1]

shape_of(a) == <<a.num_samples, a.img_size, a.img_size, 3>>

NoGenArgs == [num_samples |-> 0, img_size |-> 0, seed |-> 0]
NoRng     == [seed |-> 0, pos |-> 0, seeded |-> 0, draws |-> <<>>]
NoArray   == [shape |-> <<0, 0, 0, 0>>, at |-> <<>>]

GenArgs == [num_samples : 0..MaxSamples, img_size : GenImgSizes, seed : Seeds]

GenInit ==
    /\ gpc = "idle"
    /\ gargs = NoGenArgs
    /\ grng = NoRng
    /\ gX = NoArray
    /\ gcalls = <<>>
    /\ fs = <<>>
    /\ pc = "off"
    /\ run = 0
    /\ args = <<>>
    /\ ret = <<>>
    /\ log = <<>>
    /\ meta_ret = <<>>
    /\ fs0 = <<>>
    /\ HashIdle

\* A call with a negative seed: default_rng raises ValueError.
GenCallRaise ==
    /\ gpc \in {"idle", "returned", "raised"}
    /\ Len(gcalls) < MaxCalls
    /\ \E a \in GenArgs :
          /\ a.seed < 0
          /\ gargs' = a
    /\ grng' = NoRng
    /\ gX' = NoArray
    /\ gpc' = "raised"
    /\ UNCHANGED <<gcalls, pipeVars, hashVars>>

\* A call: rng = np.random.default_rng(seed) and X = rng.random(shape).
GenCallDraw ==
    /\ gpc \in {"idle", "returned", "raised"}
    /\ Len(gcalls) < MaxCalls
    /\ \E a \in GenArgs, g \in GlobalStates :
          /\ a.seed >= 0
          /\ gargs' = a
          /\ LET rng == default_rng(a.seed, g)
             IN  /\ gX' = random(rng, shape_of(a))
                 /\ grng' = advance(rng, shape_of(a), "X")
    /\ gpc' = "drawn"
    /\ UNCHANGED <<gcalls, pipeVars, hashVars>>

\* half, noise_real, noise_fake, X[:half] += noise_real, X[half:] += noise_fake
GenNoise ==
    /\ gpc = "drawn"
    /\ LET n     == gargs.num_samples
           s     == gargs.img_size
           half  == n \div 2
           shp0  == <<half, s, s, 3>>
           shp1  == <<n - half, s, s, 3>>
           noise_real == normal(grng, 0, 10, shp0)
           rng1  == advance(grng, shp0, "noise_real")
           noise_fake == normal(rng1, 0, 5, shp1)
           rng2  == advance(rng1, shp1, "noise_fake")
       IN  /\ gX' = add_slice(add_slice(gX, 0, half, noise_real), half, n, noise_fake)
           /\ grng' = rng2
    /\ gpc' = "noised"
    /\ UNCHANGED <<gargs, gcalls, pipeVars, hashVars>>

\* The grid loop.
GenGrid ==
    /\ gpc = "noised"
    /\ gX' = add_grid(gX, gargs.num_samples \div 2, gargs.img_size)
    /\ gpc' = "grid"
    /\ UNCHANGED <<gargs, grng, gcalls, pipeVars, hashVars>>

\* X = np.clip(X, 0.0, 1.0), y, return X, y
GenReturn ==
    /\ gpc = "grid"
    /\ gX' = clip(gX, 0, Unit)
    /\ gcalls' = Append(gcalls,
                    [args |-> gargs,
                     X    |-> gX',
                     y    |-> labels(gargs.num_samples, gargs.num_samples \div 2)])
    /\ gpc' = "returned"
    /\ UNCHANGED <<gargs, grng, pipeVars, hashVars>>

GenNext == GenCallRaise \/ GenCallDraw \/ GenNoise \/ GenGrid \/ GenReturn

GenSpec == GenInit /\ [][GenNext]_vars

-----------------------------------------------------------------------------
(* Claims about create_synthetic_dataset, checked under GenSpec *)

\* What the last call that returned has returned.
LastCall == gcalls[Len(gcalls)]

\* The dataset a call returned has the shape, the value range and the labels
\* of the contract.
WellShaped(call) ==
    LET n == call.args.num_samples
        s == call.args.img_size
    IN  /\ call.X.shape = <<n, s, s, 3>>
        /\ DOMAIN call.X.at = Indices(<<n, s, s, 3>>)
        /\ Len(call.y) = n
        /\ \A idx \in DOMAIN call.X.at : 0 <= call.X.at[idx] /\ call.X.at[idx] <= Unit
        /\ \A i \in 1..n : call.y[i] = IF i <= n \div 2 THEN 0 ELSE 1

\* C13 as stated: for every num_samples >= 0, every positive img_size and
\* every seed the call returns without error, and what it returns has shape
\* [num_samples, img_size, img_size, 3] with as many labels, every element in
\* [0.0, 1.0], and the first floor(num_samples / 2) labels 0 and the rest 1.
C13_GenerateTotal ==
    /\ gpc # "raised"
    /\ \A k \in 1..Len(gcalls) : WellShaped(gcalls[k])

\* C13 amended: the same for every seed that is not negative; with a negative
\* seed the call raises (default_rng rejects it) and returns nothing.
C13_GenerateOnValidSeed ==
    /\ gpc = "raised" <=> (gpc # "idle" /\ gargs.seed < 0)
    /\ \A k \in 1..Len(gcalls) : WellShaped(gcalls[k])

\* C13 witness: a call with an odd num_samples has returned, and so has a
\* call with num_samples = 0; an element was clipped at 1.0.
C13_Witness ==
    /\ gpc = "returned"
    /\ \E k \in 1..Len(gcalls) : gcalls[k].args.num_samples = 0
    /\ LastCall.args.num_samples % 2 = 1
    /\ \E idx \in DOMAIN LastCall.X.at : LastCall.X.at[idx] = Unit

\* C14: two calls with the same (num_samples, img_size, seed) return the same
\* X and y, whatever was called in between and whatever state the
\* process-wide generator was in; the generator of a call was seeded once,
\* from seed, and the draws were X, noise_real, noise_fake in that order.
C14_GenerateDeterministic ==
    /\ \A i, j \in 1..Len(gcalls) :
          gcalls[i].args = gcalls[j].args =>
              gcalls[i].X = gcalls[j].X /\ gcalls[i].y = gcalls[j].y
    /\ gpc \in {"noised", "grid", "returned"} =>
          /\ grng.seeded = 1
          /\ grng.seed = gargs.seed
          /\ grng.draws = <<"X", "noise_real", "noise_fake">>
          /\ grng.pos = 2 * size(shape_of(gargs))

\* C14 witness: the first and the third call had the same arguments, the
\* second had others, and the dataset is not empty.
C14_Witness ==
    /\ Len(gcalls) = 3
    /\ gcalls[1].args = gcalls[3].args
    /\ gcalls[2].args # gcalls[1].args
    /\ gcalls[2].X # gcalls[1].X
    /\ gcalls[1].args.num_samples > 1

\* C16 as stated, X indexed [sample, row, column, channel]: the grid adds 0.1
\* at exactly the elements of the second class (sample >= floor(num_samples /
\* 2)) whose column index is a multiple of 32, in all rows and channels, and
\* nowhere else.
C16_GridOnColumns ==
    [][(gpc = "noised" /\ gpc' = "grid") =>
          \A idx \in DOMAIN gX.at :
              gX'.at[idx] - gX.at[idx] =
                  IF /\ idx[1] >= gargs.num_samples \div 2
                     /\ idx[3] % GridStep = 0
                  THEN GridBias ELSE 0]_vars

====
